---------------------------- MODULE Spec2Model ----------------------------
(***************************************************************************)
(* A model of NeuroForge: the LangGraph orchestrator (api/graph_core.py,   *)
(* api/agents/code_executor.py) and the sandbox runner (runner/app.py).    *)
(*                                                                         *)
(* Python values are represented as follows.  None is the string None      *)
(* where a string is expected; a stderr text is named by the text itself   *)
(* and its structure (what the regular expressions of code_executor.py     *)
(* find in it) is given by Tokens; a program is named by its source text   *)
(* and the modules it imports by CodeImports; a list is a sequence; a      *)
(* missing dictionary key whose readers all use .get() is the falsy value  *)
(* of its type.                                                            *)
(***************************************************************************)
EXTENDS Integers, Sequences, FiniteSets, TLC

VARIABLES
    pc,        \* the node of the graph the run is at, or END, returned, raised
    state,     \* NFState, the dictionary carried through the graph
    sent,      \* the payloads POSTed to the Runner by the last execute()
    simAsked,  \* the answer of retrieve_similar_errors in the last execute(), or "skipped"
    firstReply,\* the result execute() made of the Runner's answer to its first request
    emitted,   \* what run_task returned
    upserts,   \* the upserts the last node made to the Memory Adapter
    repair,    \* how the last node's call of code_fixer.fix_code went, or "none"
    nExec,     \* how many times node_executor ran (saturating at MaxCount)
    raisedBy,  \* the call whose exception left run_task, or "none"
    rpc,       \* Runner: where each request is in run_code
    permits,   \* Runner: the value of _RUN_SEMAPHORE
    containers,\* Runner: the requests whose container exists
    tempdirs,  \* Runner: the requests whose temp_dir exists
    acquired,  \* Runner: how many times each request acquired _RUN_SEMAPHORE
    released,  \* Runner: how many times each request released _RUN_SEMAPHORE
    req,       \* Runner: the body of request 1 where its data is followed, or NoBody
    response,  \* Runner: what the Runner answered to that request
    escaped,   \* Runner: the files that request wrote outside its temp_dir
    endpoint,  \* API: the entry point the task came through, or None (run_task called)
    http,      \* API: the answer of the entry point
    sigIn,     \* signatures: a stderr text and a variant of it, as character lists
    sigOut,    \* signatures: the _error_signature of each
    store,     \* Memory Adapter: the records of the vector index, by id
    context,   \* Memory Adapter: the priming context the last WRITE built
    reqIn,     \* requirements.txt: the request whose requirements are followed
    reqFile,   \* requirements.txt: whether run_code wrote it, and its lines
    codeIn,    \* sanitization: the text a model returned, and to which agent
    codeOut,   \* sanitization: the code execute() sends, and that code sanitized again
    tpc,       \* lazy resources: where each thread is in _get_index and _get_embedder
    shared,    \* lazy resources: the globals _pinecone_index and _embed_model
    made,      \* lazy resources: how many instances of each were created
    got        \* lazy resources: the instance each accessor returned to each thread

ovars == <<pc, state, sent, simAsked, firstReply, emitted, upserts, repair, nExec,
           raisedBy>>

rvars == <<rpc, permits, containers, tempdirs, acquired, released, req, response, escaped>>

tvars == <<endpoint, http>>

gvars == <<sigIn, sigOut>>

mvars == <<store, context>>

qvars == <<reqIn, reqFile>>

svars == <<codeIn, codeOut>>

ivars == <<tpc, shared, made, got>>

yvars == <<qvars, svars, ivars>>

xvars == <<tvars, gvars, mvars, yvars>>

vars == <<pc, state, sent, simAsked, firstReply, emitted, upserts, repair, nExec,
          raisedBy, rpc, permits, containers, tempdirs, acquired, released,
          req, response, escaped, endpoint, http, sigIn, sigOut, store, context,
          reqIn, reqFile, codeIn, codeOut, tpc, shared, made, got>>

---------------------------------------------------------------------------
(* Bounds of the model *)

MaxCount == 3

NumRequests == 5

---------------------------------------------------------------------------
(* Small helpers *)

None == "<None>"

Max(a, b) == IF a >= b THEN a ELSE b

Min(a, b) == IF a <= b THEN a ELSE b

Range(s) == {s[i] : i \in DOMAIN s}

Sat(n) == Min(n + 1, MaxCount)

\* list(S) for a set S: some enumeration of S without repetition
RECURSIVE SetToList(_)
SetToList(S) ==
    IF S = {} THEN <<>>
    ELSE LET x == CHOOSE y \in S : TRUE IN <<x>> \o SetToList(S \ {x})

\* how many times x occurs in the list s
Count(s, x) == Cardinality({i \in DOMAIN s : s[i] = x})

---------------------------------------------------------------------------
(* Inputs: stderr texts and programs *)

E_EMPTY   == ""
E_NAME    == "NameError: name 'x' is not defined"
E_TIMEOUT == "Execution timed out."
E_FILE    == "FileNotFoundError: [Errno 2] No such file or directory: 'report.pdf'"
E_MNF     == "ModuleNotFoundError: No module named 'cv2'"
E_MNF2    == "ImportError: No module named 'cv2' / ModuleNotFoundError: No module named 'cv2'"
E_NOQUOTE == "/usr/local/bin/python: No module named pandas"
W_FILE    == "UserWarning: cannot read 'cache.json', continuing"
E_RUNNER  == "Runner error: <requests exception>"
E_TYPEERR == "Runner error: unsupported operand type(s) for |: 'list' and 'set'"
E_RAW     == "{'detail': 'unexpected'}"
E_DOCKER  == "Docker unavailable: [Errno 2] No such file or directory: 'docker'"
E_CP      == "Failed to docker cp workspace"

Tok(k, pre, q, name) == [k |-> k, pre |-> pre, q |-> q, name |-> name]

TextTok == Tok("text", FALSE, FALSE, "")

\* What the regular expressions of code_executor.py see in a stderr text:
\*   text    anything else
\*   nomod   an occurrence of "No module named", with pre: directly preceded by
\*           "ModuleNotFoundError: ", q: followed by a quoted name, name: the name
\*   nofile  "No such file or directory: '<name>'", name carrying a listed extension
\*   qfile   a quoted file name carrying a listed extension
Tokens(s) ==
    CASE s = E_EMPTY   -> <<>>
      [] s = E_FILE    -> <<TextTok, Tok("nofile", FALSE, TRUE, "report.pdf")>>
      [] s = E_MNF     -> <<Tok("nomod", TRUE, TRUE, "cv2")>>
      [] s = E_MNF2    -> <<TextTok, Tok("nomod", FALSE, TRUE, "cv2"),
                            Tok("nomod", TRUE, TRUE, "cv2")>>
      [] s = E_NOQUOTE -> <<TextTok, Tok("nomod", FALSE, FALSE, "pandas")>>
      [] s = W_FILE    -> <<TextTok, Tok("qfile", FALSE, TRUE, "cache.json")>>
      [] OTHER         -> <<TextTok>>

P_HELLO == "print('hello world')"
P_CV2   == "import cv2; print(cv2.__version__)"
P_REQ   == "import os, requests; print(requests.get)"

Codes == {P_HELLO, P_CV2, P_REQ}

\* the top-level names ast.walk finds in Import and ImportFrom nodes
CodeImports(code) ==
    CASE code = P_CV2 -> {"cv2"}
      [] code = P_REQ -> {"os", "requests"}
      [] OTHER        -> {}

---------------------------------------------------------------------------
(* api/agents/code_executor.py *)

LANG_HINTS == {"python", "javascript", "c", "cpp", "java"}

\* _STDLIB_LIKE, the part of it the programs of the model can import
STDLIB_LIKE == {"sys", "os", "json", "re", "math"}

heavy_libs == {"pandas", "numpy", "torch", "opencv-python", "pdfplumber",
               "tabula-py", "openpyxl"}

\* _map_import_to_pypi: the entry of _PY_IMPORT_TO_PYPI (the part of the table the
\* model's module names can hit) for the top-level package name, or the name itself.
\* None of the module names of the model is dotted, so top is the name.
MapImportToPypi(module_name) ==
    CASE module_name = "cv2"    -> "opencv-python"
      [] module_name = "PIL"    -> "Pillow"
      [] module_name = "pandas" -> "pandas"
      [] OTHER                  -> module_name

\* _infer_python_requirements_from_code
InferRequirements(code) ==
    {MapImportToPypi(m) : m \in CodeImports(code) \ STDLIB_LIKE}

\* _extract_missing_filenames: the sorted list of the file names found
ExtractMissingFilenames(stderr) ==
    SetToList({t.name : t \in {u \in Range(Tokens(stderr)) : u.k \in {"nofile", "qfile"}}})

\* "No module named" in stderr
ContainsNoModuleNamed(stderr) ==
    \E t \in Range(Tokens(stderr)) : t.k = "nomod"

\* re.findall(r"No module named ['\"]([^'\"]+)['\"]", stderr)
FindallMissing(stderr) ==
    LET q == SelectSeq(Tokens(stderr), LAMBDA t : t.k = "nomod" /\ t.q)
    IN  [i \in DOMAIN q |-> q[i].name]

\* _extract_missing_module: the first "ModuleNotFoundError: No module named '<m>'"
ExtractMissingModule(stderr) ==
    LET q == SelectSeq(Tokens(stderr), LAMBDA t : t.k = "nomod" /\ t.q /\ t.pre)
    IN  IF q = <<>> THEN None ELSE q[1].name

\* missing_pkgs of execute
MissingPkgs(stderr) ==
    {MapImportToPypi(m) : m \in Range(FindallMissing(stderr))}
      \cup (IF ExtractMissingModule(stderr) = None THEN {}
            ELSE {MapImportToPypi(ExtractMissingModule(stderr))})

\* list(set(retry_payload.get("requirements", []) | missing_pkgs)): the left operand
\* of | is a list and the right one a set, for which Python raises TypeError
RetryRequirements(requirements, missing_pkgs) ==
    [raises |-> TRUE, value |-> <<>>]

\* the responses of the Runner (or of what answers at RUNNER_URL) and the failure
\* of the request: kind is the shape of the JSON body, exc a requests exception
\* (unreachable, timeout, HTTP status >= 400 through raise_for_status)
\* A nested body whose stderr is None is {"result": {"returncode": rc}}: its inner
\* dictionary has no stdout and no stderr.
Reply(kind, rc, stderr) == [kind |-> kind, returncode |-> rc, stderr |-> stderr]

RunnerReplies ==
    {Reply("flat", 0, s) : s \in {E_EMPTY, W_FILE}}
      \cup {Reply("flat", 1, s) : s \in {E_EMPTY, E_NAME, E_FILE, E_MNF, E_MNF2, E_NOQUOTE}}
      \cup {Reply("nested", 0, E_EMPTY), Reply("nested", 1, E_NAME),
            Reply("nested", 0, None),
            Reply("flat", 124, E_TIMEOUT), Reply("other", 1, E_RAW),
            Reply("flat", 1, E_DOCKER), Reply("flat", 1, E_CP),
            Reply("exc", 1, E_RUNNER)}

\* str.lower() on the language names of the model
Lower(str) == IF str = "PYTHON" THEN "python" ELSE str

\* RunRequest of runner/app.py: timeout gt 0, le 300 and a language whose lower
\* case is a key of SANDBOX_CONFIG (the keys are those of LANG_HINTS), or the
\* request is answered 422.  The validators of requirements and
\* extra_requirements strip each entry and raise for none.
RunnerAccepts(payload) ==
    /\ payload.timeout > 0
    /\ payload.timeout <= 300
    /\ Lower(payload.language) \in LANG_HINTS

\* a result dictionary, as its readers see it: result.get("stderr") is None where
\* the dictionary has no stderr (and no stdout)
Result(rc, stderr) == [returncode |-> rc, stderr |-> stderr]

\* result.get("stderr", default)
StderrOr(result, default) == IF result.stderr = None THEN default ELSE result.stderr

\* the normalization of the response body, lines 139-145 and 188-193
Normalize(raw) ==
    IF raw.kind \in {"flat", "nested"} THEN Result(raw.returncode, raw.stderr)
    ELSE Result(1, E_RAW)

Ret(result, inputs_required, sent_, sim) ==
    [result |-> result, inputs_required |-> inputs_required, sent |-> sent_, sim |-> sim]

\* the result of the first request: the normalized body, or the result made of
\* the exception
FirstResult(r1) == IF r1.kind = "exc" THEN Result(1, E_RUNNER) ELSE Normalize(r1)

\* a timeout_final that gives no extra time for heavy libraries
TimeoutFinal_NoHeavyBonus(timeout, inferred) ==
    LET base_timeout == IF timeout = 0 THEN 60 ELSE timeout
        install_penalty == IF inferred # {} THEN 20 ELSE 0
    IN  Max(base_timeout, 30 + install_penalty)

\* timeout_final of execute, lines 101-104
TimeoutFinal(timeout, inferred) ==
    LET base_timeout == IF timeout = 0 THEN 60 ELSE timeout
        install_penalty == IF inferred # {} THEN 20 ELSE 0
        heavy_bonus == IF inferred \cap heavy_libs # {} THEN 20 ELSE 0
    IN  Max(base_timeout, 30 + install_penalty + heavy_bonus)

\* an execute that goes on to the retry whatever retrieve_similar_errors returned
SkipsRetry_Never(sim) == FALSE

\* lines 160-166: a similar error (a non-empty list) makes execute return the
\* result at once; an empty list does not, nor does an exception of the query
SkipsRetry(sim) == sim = "hit"

\* execute(code, language, timeout): what it returns, given the Runner's answer r1
\* to the first request, the answer sim of retrieve_similar_errors and the Runner's
\* answer r2 to the retry.  sent lists the requests POSTed: the fields of the
\* payload, and as tolerance the timeout= of the requests.post call.
Execute(code, language, timeout, r1, sim, r2) ==
    LET inferred == IF language = "python" THEN InferRequirements(code) ELSE {}
        timeout_final == TimeoutFinal(timeout, inferred)
        payload == [language |-> language, code |-> code, timeout |-> timeout_final,
                    requirements |-> SetToList(inferred),
                    tolerance |-> timeout_final + 60]
        result == FirstResult(r1)
        inputs_required == ExtractMissingFilenames(result.stderr)
        missing == /\ language = "python"
                   /\ result.returncode # 0
                   /\ ContainsNoModuleNamed(result.stderr)
        missing_pkgs == MissingPkgs(result.stderr)
        merged == RetryRequirements(payload.requirements, missing_pkgs)
        retry_timeout == Max(timeout_final, 60) + 60
        retry_payload == [payload EXCEPT !.requirements = merged.value,
                                         !.timeout = retry_timeout,
                                         !.tolerance = retry_timeout + 60]
    IN  IF r1.kind = "exc"
          THEN Ret(result, <<>>, <<payload>>, "skipped")
        ELSE IF inputs_required # <<>>
          THEN Ret(result, inputs_required, <<payload>>, "skipped")
        ELSE IF ~missing
          THEN Ret(result, <<>>, <<payload>>, "skipped")
        ELSE IF SkipsRetry(sim)
          THEN Ret(result, <<>>, <<payload>>, sim)
        ELSE IF missing_pkgs = {}
          THEN Ret(result, <<>>, <<payload>>, sim)
        ELSE IF merged.raises
          THEN Ret(Result(1, E_TYPEERR), <<>>, <<payload>>, sim)
        ELSE IF r2.kind = "exc" \/ ~RunnerAccepts(retry_payload)
          THEN Ret(result, <<>>, <<payload, retry_payload>>, sim)
        ELSE Ret(Normalize(r2), <<>>, <<payload, retry_payload>>, sim)

---------------------------------------------------------------------------
(* api/graph_core.py *)

MAX_ATTEMPTS == 3

\* the timeout of TaskRequest (api/main.py): an optional int, not validated
HintValues == {0, 5, 290, 400}

Hints == {[given |-> FALSE, value |-> 0]}
           \cup {[given |-> TRUE, value |-> v] : v \in HintValues}

InputFileSets == {{"data.csv"}}

\* Python truthiness of an optional string
Truthy(x) == x # None /\ x # ""

\* _error_signature: the SHA-1 of the normalized text, kept symbolic
ErrorSignature(err) == <<"sha1", err>>

NoSignature == <<"sha1", None>>

NoResult == [set |-> FALSE, result |-> Result(-1, None), inputs_required |-> <<>>]

initial_state(task, input_files, timeout) ==
    [task |-> task, language |-> None, code |-> None, result |-> NoResult,
     error |-> None, error_signature |-> NoSignature, attempts |-> 0,
     input_files |-> input_files, inputs_required |-> <<>>,
     timeout |-> IF timeout.given /\ timeout.value # 0 THEN timeout.value ELSE 60]

\* the outcomes of the external calls
QueryOutcomes == {"raise", "none", "hit"}

\* the languages generate_code is taken to detect
Languages == {"python", "java"}

GeneratorOutcomes ==
    {[raises |-> TRUE, code |-> None, language |-> None]}
      \cup {[raises |-> FALSE, code |-> c, language |-> l] : c \in Codes, l \in Languages}

RepairerOutcomes ==
    {[raises |-> TRUE, code |-> None]} \cup {[raises |-> FALSE, code |-> c] : c \in Codes}

\* a call of rag_manager.add_tool, add_error or add_fix.  Each is made inside a
\* try whose handler only logs, so whether the call raises changes nothing else.
Upsert(ns, language, code, error) ==
    [ns |-> ns, language |-> language, code |-> code, error |-> error]

\* node_writer.  An exception of retrieve_tools, retrieve_docs or generate_code is
\* caught nowhere: it leaves flow.invoke and run_task.  The two queries come first.
NodeWriter ==
    /\ pc = "writer"
    /\ \E tq \in QueryOutcomes, dq \in QueryOutcomes, g \in GeneratorOutcomes :
         IF tq = "raise" \/ dq = "raise" \/ g.raises
           THEN /\ pc' = "raised"
                /\ raisedBy' = IF tq = "raise" THEN "retrieve_tools"
                               ELSE IF dq = "raise" THEN "retrieve_docs"
                               ELSE "generate_code"
                /\ UNCHANGED state
           ELSE /\ pc' = "executor"
                /\ UNCHANGED raisedBy
                /\ state' = [state EXCEPT
                               !.code = g.code,
                               !.language = IF state.language # None THEN state.language
                                            ELSE g.language,
                               !.attempts = @ + 1]
    /\ upserts' = <<>>
    /\ repair' = "none"
    /\ UNCHANGED <<sent, simAsked, firstReply, emitted, nExec>>
    /\ UNCHANGED <<rvars, xvars>>

\* a node_executor that leaves error and error_signature alone after exit code 0
ExecutorState_KeepError(s, ex) ==
    LET res == [set |-> TRUE, result |-> ex.result, inputs_required |-> ex.inputs_required]
    IN  IF ex.result.returncode = 0
          THEN [s EXCEPT !.result = res]
          ELSE [s EXCEPT
                  !.result = res,
                  !.error = StderrOr(ex.result, ""),
                  !.error_signature = IF StderrOr(ex.result, "") # ""
                                        THEN ErrorSignature(StderrOr(ex.result, ""))
                                        ELSE NoSignature,
                  !.inputs_required = IF ex.inputs_required # <<>>
                                        THEN ex.inputs_required ELSE @]

\* the state node_executor leaves, given what execute() returned
ExecutorState(s, ex) ==
    LET res == [set |-> TRUE, result |-> ex.result, inputs_required |-> ex.inputs_required]
    IN  IF ex.result.returncode = 0
          THEN [s EXCEPT !.result = res, !.error = None, !.error_signature = NoSignature]
          ELSE [s EXCEPT
                  !.result = res,
                  !.error = StderrOr(ex.result, ""),
                  !.error_signature = IF StderrOr(ex.result, "") # ""
                                        THEN ErrorSignature(StderrOr(ex.result, ""))
                                        ELSE NoSignature,
                  !.inputs_required = IF ex.inputs_required # <<>>
                                        THEN ex.inputs_required ELSE @]

\* a node_executor that promotes the code to a tool whatever the exit code
ExecutorUpserts_PromoteAlways(s, ex) ==
    <<Upsert("tools", s.language, s.code, None)>>

\* the upsert node_executor makes: add_tool after exit code 0, add_error otherwise
ExecutorUpserts(s, ex) ==
    IF ex.result.returncode = 0
      THEN <<Upsert("tools", s.language, s.code, None)>>
      ELSE <<Upsert("errors", None, s.code, StderrOr(ex.result, ""))>>

\* whether execute() asks retrieve_similar_errors, and whether it sends a retry,
\* for the first answer r1 (and the answer sim)
AsksSimilar(s, r1) ==
    Execute(s.code, s.language, s.timeout, r1, "none", r1).sim # "skipped"

SendsRetry(s, r1, sim) ==
    Len(Execute(s.code, s.language, s.timeout, r1, sim, r1).sent) = 2

NodeExecutor ==
    /\ pc = "executor"
    /\ \E r1 \in RunnerReplies :
       \E sim \in IF AsksSimilar(state, r1) THEN QueryOutcomes ELSE {"none"} :
       \E r2 \in IF SendsRetry(state, r1, sim) THEN RunnerReplies ELSE {r1} :
         LET ex == Execute(state.code, state.language, state.timeout, r1, sim, r2)
         IN  /\ r1.kind # "exc" => RunnerAccepts(ex.sent[1])
             /\ state' = ExecutorState(state, ex)
             /\ upserts' = ExecutorUpserts(state, ex)
             /\ sent' = ex.sent
             /\ simAsked' = ex.sim
             /\ firstReply' = FirstResult(r1)
    /\ nExec' = Sat(nExec)
    /\ repair' = "none"
    /\ pc' = "fixer"
    /\ UNCHANGED <<emitted, raisedBy>>
    /\ UNCHANGED <<rvars, xvars>>

\* decide_next with the comparison off by one
decide_next_OffByOne(s) ==
    IF Truthy(s.error) /\ s.attempts <= MAX_ATTEMPTS THEN "executor" ELSE "END"

\* decide_next
decide_next(s) ==
    IF Truthy(s.error) /\ s.attempts < MAX_ATTEMPTS THEN "executor" ELSE "END"

\* the timeout node_fixer sets
FixerTimeout(timeout) ==
    LET current_to == IF timeout = 0 THEN 60 ELSE timeout
    IN  Min(300, Max(60, current_to + 30))

\* whether node_fixer reaches the call of code_fixer.fix_code: the state has an
\* error and neither retrieve_fixes call raised
FixerCallsRepairer(s, fq1, fq2) ==
    /\ Truthy(s.error)
    /\ fq1 # "raise"
    /\ (fq1 = "none" => fq2 # "raise")

\* a node_fixer that takes the language of the repaired program to be Python
FixerState_ResetsLanguage(s, fq1, fq2, rep) ==
    IF ~FixerCallsRepairer(s, fq1, fq2) \/ rep.raises THEN s
    ELSE [s EXCEPT !.code = rep.code,
                   !.language = "python",
                   !.attempts = @ + 1,
                   !.timeout = FixerTimeout(@)]

\* the state node_fixer leaves
FixerState(s, fq1, fq2, rep) ==
    IF ~FixerCallsRepairer(s, fq1, fq2) \/ rep.raises THEN s
    ELSE [s EXCEPT !.code = rep.code,
                   !.attempts = @ + 1,
                   !.timeout = FixerTimeout(@)]

\* the upsert node_fixer makes: add_fix of the repaired code under the signature
FixerUpserts(s, fq1, fq2, rep) ==
    IF ~FixerCallsRepairer(s, fq1, fq2) \/ rep.raises THEN <<>>
    ELSE <<Upsert("fixes", s.language, rep.code, s.error)>>

\* node_fixer, followed by the routing of decide_next.  The retrieve_tools and
\* retrieve_docs calls of node_fixer have their exceptions caught and change nothing.
NodeFixer ==
    /\ pc = "fixer"
    /\ \E fq1 \in IF Truthy(state.error) THEN QueryOutcomes ELSE {"none"} :
       \E fq2 \in IF Truthy(state.error) /\ fq1 = "none" THEN QueryOutcomes ELSE {"none"} :
       \E rep \in IF FixerCallsRepairer(state, fq1, fq2) THEN RepairerOutcomes
                  ELSE {[raises |-> TRUE, code |-> None]} :
         /\ state' = FixerState(state, fq1, fq2, rep)
         /\ upserts' = FixerUpserts(state, fq1, fq2, rep)
         /\ repair' = IF ~FixerCallsRepairer(state, fq1, fq2) THEN "none"
                      ELSE IF rep.raises THEN "raised" ELSE "ok"
    /\ pc' = decide_next(state')
    /\ UNCHANGED <<sent, simAsked, firstReply, emitted, nExec, raisedBy>>
    /\ UNCHANGED <<rvars, xvars>>

NoEmitted == [language |-> None, attempts |-> -1, stderr |-> None, returncode |-> -1,
              inputs_required |-> <<>>]

\* the result run_task builds from the final state
Emit(s) ==
    [language |-> s.language, attempts |-> s.attempts,
     stderr |-> StderrOr(s.result.result, ""),
     returncode |-> s.result.result.returncode,
     inputs_required |-> s.inputs_required]

\* run_task, after flow.invoke returned
RunTaskReturn ==
    /\ pc = "END"
    /\ emitted' = Emit(state)
    /\ pc' = "returned"
    /\ UNCHANGED <<state, sent, simAsked, firstReply, upserts, repair, nExec, raisedBy>>
    /\ UNCHANGED <<rvars, xvars>>

---------------------------------------------------------------------------
(* runner/app.py.  run_code is modelled as running concurrently for several    *)
(* requests, a request giving way to the others wherever it blocks: at the     *)
(* semaphore, at docker create and docker cp, and while docker start -a runs   *)
(* the container.  What follows a blocking call up to the next one, the except *)
(* handlers and the finally block included, is one step.  docker rm -f is      *)
(* taken to remove the container whenever _cleanup_container runs it.  The     *)
(* handler is an async def that never awaits, so under a single event loop the *)
(* requests run one after the other: those runs are among the interleavings    *)
(* modelled here.                                                              *)

MAX_CONCURRENCY == 4

Requests == 1..NumRequests

\* an acquire() that does not wait for a permit
CanAcquireAlways == TRUE

\* _RUN_SEMAPHORE.acquire() returns once the counter is positive
CanAcquire == permits > 0

\* a release() that gives no permit back
SemReleaseNothing(p) == p

\* BoundedSemaphore.release(): one more permit; above the initial value it raises
\* ValueError, which the finally block swallows
SemRelease(p) == IF p < MAX_CONCURRENCY THEN p + 1 ELSE p

\* the ways run_code ends after the semaphore was acquired
ExitPaths == {"normal", "timeout", "create_failed", "copy_failed", "input_file",
              "docker_missing", "exception"}

\* a handler of TimeoutExpired that leaves the container
ExitCleansUp_NotOnTimeout(path) == path \notin {"normal", "create_failed", "timeout"}

\* whether run_code calls _cleanup_container on this way out: it does in the
\* handler of an input file, after a failed docker cp and in the three except
\* clauses, and does not where docker create failed or the container exited
ExitCleansUp(path) == path \notin {"normal", "create_failed"}

\* a release placed at the end of the try block: only the container's exit reaches it
ExitReleasesOnExitOnly(path) == path = "normal"

\* whether the finally block releases the semaphore on this way out
ExitReleases(path) == TRUE

\* A file name of files_b64: whether it starts with the path separator, and its
\* segments
FileName(abs, segs) == [abs |-> abs, segs |-> segs]

FileNames ==
    {FileName(FALSE, <<"data.csv">>),
     FileName(FALSE, <<"sub", "data.csv">>),
     FileName(FALSE, <<"sub", "..", "data.csv">>),
     FileName(FALSE, <<"..", "evil.txt">>),
     FileName(FALSE, <<"sub", "..", "..", "evil.txt">>),
     FileName(TRUE, <<"etc", "cron.d", "evil">>)}

\* how many of the first n segments are ".."
RECURSIVE DotDots(_, _)
DotDots(segs, n) ==
    IF n = 0 THEN 0 ELSE DotDots(segs, n - 1) + (IF segs[n] = ".." THEN 1 ELSE 0)

\* whether os.path.join(temp_dir, rel_name) names a file outside temp_dir: an
\* absolute rel_name makes join drop temp_dir, and a relative one leaves temp_dir
\* where its ".." segments outnumber the segments before them
JoinsOutside(name) ==
    \/ name.abs
    \/ \E n \in 1..Len(name.segs) : 2 * DotDots(name.segs, n) > n

\* value.strip() on the requirement entries of the model
Strip(str) ==
    CASE str = " "      -> ""
      [] str = " numpy" -> "numpy"
      [] OTHER          -> str

\* the request bodies followed in detail
Body(language, timeout, requirements, files) ==
    [language |-> language, timeout |-> timeout, requirements |-> requirements,
     files |-> files]

NoBody == Body(None, 0, <<>>, {})

BodyLanguages == {"python", "PYTHON", "java", "ruby"}

BodyTimeouts == {0, 1, 300, 301}

BodyRequirements == {<<>>, <<"numpy">>, <<" ">>, <<"numpy", "">>}

Bodies ==
    {Body(l, t, q, f) : l \in BodyLanguages, t \in BodyTimeouts,
                        q \in BodyRequirements, f \in {{}} \cup {{n} : n \in FileNames}}

\* the answers of the Runner: the HTTP status and, under 200, the dict returned
Answer(status, rc, stdout, stderr, artifacts) ==
    [status |-> status, returncode |-> rc, stdout |-> stdout, stderr |-> stderr,
     artifacts |-> artifacts]

NoAnswer == Answer(0, -1, None, None, "absent")

\* the 422 FastAPI makes of a validation error of RunRequest
Unprocessable == Answer(422, -1, None, None, "absent")

E_INPUT  == "Failed to decode or write input file"
E_CREATE == "docker: Error response from daemon"
E_EXC    == "Runner error: <exception>"

\* the dicts run_code returns on each way out.  After the container's exit the
\* return code and the output are the container's, and the artifacts are either
\* the zip (artifacts_zip_b64) or a note (artifacts_note).
PathAnswers(path) ==
    CASE path = "input_file"     -> {Answer(200, 1, "", E_INPUT, "absent")}
      [] path = "create_failed"  -> {Answer(200, 125, "", E_CREATE, "absent")}
      [] path = "copy_failed"    -> {Answer(200, 1, "", E_CP, "absent")}
      [] path = "timeout"        -> {Answer(200, 124, "", E_TIMEOUT, "absent")}
      [] path = "docker_missing" -> {Answer(200, 1, "", E_DOCKER, "absent")}
      [] path = "exception"      -> {Answer(200, 1, "", E_EXC, "absent")}
      [] path = "normal"         ->
           {Answer(200, 0, "hello world", E_EMPTY, a) : a \in {"zip", "note"}}
             \cup {Answer(200, 1, "", E_NAME, a) : a \in {"zip", "note"}}

\* whether the model follows the data of request r
Watched(r) == r = 1 /\ req # NoBody

\* RunRequest refuses the body: FastAPI answers 422 and run_code is not entered
RunnerReject(r) ==
    /\ rpc[r] = "idle"
    /\ Watched(r)
    /\ ~RunnerAccepts(req)
    /\ rpc' = [rpc EXCEPT ![r] = "rejected"]
    /\ response' = Unprocessable
    /\ UNCHANGED <<permits, containers, tempdirs, acquired, released, req, escaped>>
    /\ UNCHANGED <<ovars, xvars>>

\* lines 195-201: the profile is looked up and temp_dir created
RunnerEnter(r) ==
    /\ rpc[r] = "idle"
    /\ Watched(r) => RunnerAccepts(req)
    /\ rpc' = [rpc EXCEPT ![r] = "acquire"]
    /\ tempdirs' = tempdirs \cup {r}
    /\ UNCHANGED <<permits, containers, acquired, released, req, response, escaped>>
    /\ UNCHANGED <<ovars, xvars>>

\* line 204
RunnerAcquire(r) ==
    /\ rpc[r] = "acquire"
    /\ CanAcquire
    /\ permits' = permits - 1
    /\ acquired' = [acquired EXCEPT ![r] = @ + 1]
    /\ rpc' = [rpc EXCEPT ![r] = "held"]
    /\ UNCHANGED <<containers, tempdirs, released, req, response, escaped>>
    /\ UNCHANGED <<ovars, xvars>>

\* the return of run_code along path: the handler's cleanup and the dict
\* returned, then the finally block (release, rmtree of temp_dir)
RunnerReturn(r, path) ==
    /\ \E a \in PathAnswers(path) : response' = IF Watched(r) THEN a ELSE response
    /\ containers' = IF ExitCleansUp(path) THEN containers \ {r} ELSE containers
    /\ permits' = IF ExitReleases(path) THEN SemRelease(permits) ELSE permits
    /\ released' = IF ExitReleases(path) THEN [released EXCEPT ![r] = @ + 1]
                   ELSE released
    /\ tempdirs' = tempdirs \ {r}
    /\ rpc' = [rpc EXCEPT ![r] = "returned"]
    /\ UNCHANGED <<acquired, req>>
    /\ UNCHANGED <<ovars, xvars>>

\* the files of the body that the loop of lines 211-218 writes outside temp_dir
\* when every write succeeds
WritesOutside(r) ==
    IF Watched(r) THEN {n \in req.files : JoinsOutside(n)} ELSE {}

\* lines 206-250: the workspace files are written and the container is created.
\* The write of main.<ext> may raise (exception); decoding or writing an input
\* file may raise (input_file), which needs an input file; once the files are
\* written docker create may be missing (docker_missing), fail (create_failed) or
\* create the container.
RunnerCreate(r) ==
    /\ rpc[r] = "held"
    /\ \/ /\ rpc' = [rpc EXCEPT ![r] = "created"]
          /\ containers' = containers \cup {r}
          /\ escaped' = escaped \cup WritesOutside(r)
          /\ UNCHANGED <<permits, tempdirs, acquired, released, req, response>>
          /\ UNCHANGED <<ovars, xvars>>
       \/ /\ RunnerReturn(r, "exception")
          /\ UNCHANGED escaped
       \/ /\ Watched(r) => req.files # {}
          /\ RunnerReturn(r, "input_file")
          /\ UNCHANGED escaped
       \/ /\ \E path \in {"create_failed", "docker_missing"} : RunnerReturn(r, path)
          /\ escaped' = escaped \cup WritesOutside(r)

\* lines 252-260: docker cp of the workspace into the container
RunnerCopy(r) ==
    /\ rpc[r] = "created"
    /\ \/ /\ rpc' = [rpc EXCEPT ![r] = "running"]
          /\ UNCHANGED <<permits, containers, tempdirs, acquired, released,
                         req, response>>
          /\ UNCHANGED <<ovars, xvars>>
       \/ \E path \in {"copy_failed", "exception"} : RunnerReturn(r, path)
    /\ UNCHANGED escaped

\* lines 262-298 and 307-321: docker start -a ends by the container's exit, or an
\* exception other than TimeoutExpired is raised
RunnerStart(r) ==
    /\ rpc[r] = "running"
    /\ \E path \in {"normal", "exception"} : RunnerReturn(r, path)
    /\ UNCHANGED escaped

\* lines 264 and 300-306: docker start -a outlives req.timeout, subprocess.run
\* raises TimeoutExpired
RunnerTimeout(r) ==
    /\ rpc[r] = "running"
    /\ RunnerReturn(r, "timeout")
    /\ UNCHANGED escaped

RunnerStep(r) ==
    \/ RunnerEnter(r)
    \/ RunnerAcquire(r)
    \/ RunnerCreate(r)
    \/ RunnerCopy(r)
    \/ RunnerStart(r)
    \/ RunnerTimeout(r)

---------------------------------------------------------------------------
(* api/graph_core.py: _normalize_error and _error_signature, on texts given as *)
(* lists of characters                                                         *)

\* the characters [A-Za-z], \d and whitespace of the texts of the model
Letters == {"C", "D", "E", "F", "a", "b", "c", "e", "i", "l", "m", "p", "r", "s", "t",
            "u", "x", "y"}

Digits == {"2", "3", "4", "7"}

Whitespace == {" ", "\n"}

\* the characters the class [^\\s] of the two path patterns leaves out.  The
\* patterns are raw strings, so the class holds an escaped backslash and the
\* letter s: it matches every character but those two, white space included.
ClassExcluded == {"\\", "s"}

\* the index after the longest run of characters of the class from index j on
RECURSIVE ClassRunEnd(_, _)
ClassRunEnd(s, j) ==
    IF j > Len(s) \/ s[j] \in ClassExcluded THEN j ELSE ClassRunEnd(s, j + 1)

\* re.sub(r"[A-Za-z]:\\\\[^\\s]+", "", s), from index i on: a letter, a colon, two
\* backslashes and a run of the class
RECURSIVE SubWindows(_, _)
SubWindows(s, i) ==
    IF i > Len(s) THEN <<>>
    ELSE IF /\ i + 4 <= Len(s)
            /\ s[i] \in Letters
            /\ s[i + 1] = ":"
            /\ s[i + 2] = "\\"
            /\ s[i + 3] = "\\"
            /\ s[i + 4] \notin ClassExcluded
      THEN SubWindows(s, ClassRunEnd(s, i + 4))
    ELSE <<s[i]>> \o SubWindows(s, i + 1)

\* re.sub(r"/[^\\s]+", "", s), from index i on: a slash and a run of the class
RECURSIVE SubUnix(_, _)
SubUnix(s, i) ==
    IF i > Len(s) THEN <<>>
    ELSE IF /\ i + 1 <= Len(s)
            /\ s[i] = "/"
            /\ s[i + 1] \notin ClassExcluded
      THEN SubUnix(s, ClassRunEnd(s, i + 1))
    ELSE <<s[i]>> \o SubUnix(s, i + 1)

RECURSIVE DigitRunEnd(_, _)
DigitRunEnd(s, j) ==
    IF j > Len(s) \/ s[j] \notin Digits THEN j ELSE DigitRunEnd(s, j + 1)

\* re.sub(r"\d+", "N", s), from index i on
RECURSIVE SubDigits(_, _)
SubDigits(s, i) ==
    IF i > Len(s) THEN <<>>
    ELSE IF s[i] \in Digits THEN <<"N">> \o SubDigits(s, DigitRunEnd(s, i))
    ELSE <<s[i]>> \o SubDigits(s, i + 1)

\* " ".join(s.split()), from index i on; started: a word was written, gap: white
\* space was passed since
RECURSIVE JoinSplit(_, _, _, _)
JoinSplit(s, i, started, gap) ==
    IF i > Len(s) THEN <<>>
    ELSE IF s[i] \in Whitespace THEN JoinSplit(s, i + 1, started, started)
    ELSE (IF gap THEN <<" ">> ELSE <<>>) \o <<s[i]>> \o JoinSplit(s, i + 1, TRUE, FALSE)

\* _normalize_error
normalize_error(err) ==
    LET s1 == SubWindows(err, 1)
        s2 == SubUnix(s1, 1)
        s3 == SubDigits(s2, 1)
        s4 == JoinSplit(s3, 1, FALSE, FALSE)
    IN  SubSeq(s4, 1, Min(Len(s4), 1024))

\* _error_signature: the SHA-1 of the normalized text, taken to be injective
error_signature(err) == <<"sha1", normalize_error(err)>>

\* the file paths and the integers of the texts
SamplePaths ==
    {<<"/", "t", "m", "p", "/", "a", ".", "p", "y">>,
     <<"/", "u", "s", "r", "/", "a", ".", "p", "y">>,
     <<"/", "b", "/", "c", ".", "p", "y">>,
     <<"C", ":", "\\", "a", ".", "p", "y">>,
     <<"D", ":", "\\", "u", "s", "r", "\\", "b", ".", "p", "y">>}

SampleInts == {<<"3">>, <<"4", "2">>, <<"7">>}

\* File <path>, l <int>\nErr is x     and     Err <int> at <path>
SampleText(shape, path, int) ==
    IF shape = 1
      THEN <<"F", "i", "l", "e", " ">> \o path \o <<",", " ", "l", " ">> \o int
             \o <<"\n", "E", "r", "r", " ", "i", "s", " ", "x">>
      ELSE <<"E", "r", "r", " ">> \o int \o <<" ", "a", "t", " ">> \o path

\* a text and a variant of it: the same shape with another path and another integer
SamplePairs ==
    {<<SampleText(sh, p1, n1), SampleText(sh, p2, n2)>> :
        sh \in {1, 2}, p1 \in SamplePaths, p2 \in SamplePaths,
        n1 \in SampleInts, n2 \in SampleInts}

\* the signature of the text and of its variant are computed
ComputeSignatures ==
    /\ sigIn # <<>>
    /\ sigOut = <<>>
    /\ sigOut' = <<error_signature(sigIn[1]), error_signature(sigIn[2])>>
    /\ UNCHANGED sigIn
    /\ UNCHANGED <<ovars, rvars, tvars, mvars, yvars>>

---------------------------------------------------------------------------
(* api/main.py: the entry points run_task_api (POST /run_task, JSON) and        *)
(* run_task_multipart (POST /run_task_multipart)                                *)

Endpoints == {"run_task", "run_task_multipart"}

Http(status, kind, result) == [status |-> status, kind |-> kind, result |-> result]

NoHttp == Http(0, None, NoEmitted)

\* the status the entry point answers when exc is raised inside its try block.
\* run_task_api has the single clause except Exception, which an HTTPException
\* matches as well, and raises HTTPException(500) from it; run_task_multipart
\* re-raises an HTTPException in a clause of its own before that one.
HandlerStatus(ep, exc) ==
    IF ep = "run_task_multipart" /\ exc = "HTTPException(400)" THEN 400 ELSE 500

\* lines 87-95 and 116-124: the files of the request are decoded (read); a
\* failure raises HTTPException(400) inside the try block
ApiReceive ==
    /\ pc = "api"
    /\ \E decoded \in (IF state.input_files # {} THEN {TRUE, FALSE} ELSE {TRUE}) :
         IF decoded
           THEN /\ pc' = "writer"
                /\ UNCHANGED http
           ELSE /\ pc' = "answered"
                /\ http' = Http(HandlerStatus(endpoint, "HTTPException(400)"), "detail",
                                NoEmitted)
    /\ UNCHANGED <<state, sent, simAsked, firstReply, emitted, upserts, repair, nExec,
                   raisedBy, endpoint>>
    /\ UNCHANGED <<rvars, gvars, mvars, yvars>>

\* lines 97-101 and 126-132: run_task returned, or an exception left it
ApiAnswer ==
    /\ pc \in {"returned", "raised"}
    /\ endpoint \in Endpoints
    /\ http' = IF pc = "returned" THEN Http(200, "success", emitted)
               ELSE Http(HandlerStatus(endpoint, "Exception"), "detail", NoEmitted)
    /\ pc' = "answered"
    /\ UNCHANGED <<state, sent, simAsked, firstReply, emitted, upserts, repair, nExec,
                   raisedBy, endpoint>>
    /\ UNCHANGED <<rvars, gvars, mvars, yvars>>

---------------------------------------------------------------------------
(* api/memory/rag_manager.py: the Memory Adapter over the vector index, and   *)
(* the priming context node_writer builds from it.  Every action is one call  *)
(* of rag_manager made by any run: the runs of one process share the index.   *)

\* the ids the index can hold
MaxIds == 3

Ids == 1..MaxIds

\* metadata values with their Python type
Val(type, v) == [type |-> type, v |-> v]

NoneVal == Val("NoneType", None)

Str(v) == Val("str", v)

\* the programs given to the adapter, and their length in characters
Programs == {"print(1)", "big"}

CodeLen(code) == IF code = "big" THEN 9000 ELSE 8

\* code[:n]
Slice(code, n) ==
    IF CodeLen(code) <= n THEN code
    ELSE IF n = 8192 THEN "big[:8192]" ELSE "big[:2048]"

\* name or ""
OrEmpty(v) == IF v = None THEN "" ELSE v

\* _embed([text])[0]: the vector of the text; the text cannot be read back from it
Embed(text) == <<"embedding", text>>

\* lines 40-49: None values are dropped, str, int, float and bool values and
\* lists of str are kept, every other value is turned into its str()
CleanMetadata(metadata) ==
    [k \in {key \in DOMAIN metadata : metadata[key].type # "NoneType"} |->
        IF metadata[k].type \in {"str", "int", "float", "bool", "list[str]"}
          THEN metadata[k]
          ELSE Str(<<"str()", metadata[k].v>>)]

\* dict.update
Update(metadata, more) ==
    [k \in DOMAIN metadata \cup DOMAIN more |->
        IF k \in DOMAIN more THEN more[k] ELSE metadata[k]]

\* index.upsert(vectors=[{id, values, metadata}], namespace=collection): the
\* vector is written under its id, over the vector that id had, if any
IndexUpsert(s, rid, values, metadata, collection) ==
    [id \in DOMAIN s \cup {rid} |->
        IF id = rid
          THEN [namespace |-> collection, values |-> values, metadata |-> metadata]
          ELSE s[id]]

\* line 36, str(uuid.uuid4()): an id that no record has
Uuid4_Reused(s) == Ids

Uuid4(s) == Ids \ DOMAIN s

\* _upsert_record(collection, text, metadata) with the id rid
UpsertRecord(rid, collection, text, metadata) ==
    /\ rid \in Uuid4(store)
    /\ store' = IndexUpsert(store, rid, Embed(text), CleanMetadata(metadata), collection)

\* datetime.utcnow().isoformat()
CreatedAt == Str("utcnow")

\* add_tool(name, language, code, metadata)
AddTool ==
    \E rid \in Ids, language \in {"python", "node"}, code \in Programs :
        LET name     == None
            given    == [source |-> Str("auto_promote"), success_count |-> Val("int", 1)]
            metadata == Update(given, [language |-> Str(language),
                                       name |-> IF name = None THEN NoneVal ELSE Str(name),
                                       created_at |-> CreatedAt])
            text_for_embed == <<OrEmpty(name), "\n", Slice(code, 8192)>>
        IN  UpsertRecord(rid, "tools", text_for_embed, metadata)

\* add_error(error_text, stderr, context)
AddError ==
    \E rid \in Ids, stderr \in {"NameError: x"}, code \in {"print(1)"} :
        LET metadata == [stderr |-> Str(stderr), context |-> Str(code),
                         created_at |-> CreatedAt]
            text_for_embed == <<OrEmpty(stderr), "\n", OrEmpty(code)>>
        IN  UpsertRecord(rid, "errors", text_for_embed, metadata)

\* add_doc(title, content)
AddDoc ==
    \E rid \in Ids, title \in {"guide"}, content \in Programs :
        LET metadata == [title |-> Str(title), created_at |-> CreatedAt]
            text_for_embed == <<title, "\n", Slice(content, 8192)>>
        IN  UpsertRecord(rid, "docs", text_for_embed, metadata)

\* add_pattern(name, content)
AddPattern ==
    \E rid \in Ids, name \in {"retry"}, content \in {"big"} :
        LET metadata == [name |-> Str(name), created_at |-> CreatedAt]
        IN  UpsertRecord(rid, "patterns", <<Slice(content, 8192)>>, metadata)

\* add_fix(error_signature, language, fixed_code, metadata)
AddFix ==
    \E rid \in Ids, sig \in {"sha1-a"}, fixed_code \in {"big"} :
        LET given    == [source |-> Str("auto_fix")]
            metadata == Update(given, [language |-> Str("python"),
                                       created_at |-> CreatedAt,
                                       error_signature |-> Str(sig)])
            text_for_embed == <<sig, "\n", Slice(fixed_code, 2048)>>
        IN  UpsertRecord(rid, "fixes", text_for_embed, metadata)

\* lines 75-81: a match of a query holds the id, the score and the metadata of
\* the record; the score is not followed
Match(id) == [id |-> id, score |-> "score", metadata |-> store[id].metadata]

\* dict.get(key, default)
Get(d, key, default) == IF key \in DOMAIN d THEN d[key] ELSE default

\* the lists of distinct ids of ids, at most n long
Rankings(ids, n) ==
    {h \in UNION {[1..k -> ids] : k \in 0..Min(n, Cardinality(ids))} :
        \A i, j \in DOMAIN h : i # j => h[i] # h[j]}

\* _query_records(collection, query, top_k): the records of the namespace that
\* are nearest to the query, any of them in any order for the queries there are
QueryRecords(collection, top_k) ==
    {[i \in DOMAIN h |-> Match(h[i])] :
        h \in Rankings({id \in DOMAIN store : store[id].namespace = collection}, top_k)}

\* retrieve_tools(query, top_k): the top_k first of 2 * top_k matches, sorted
RetrieveTools(top_k) ==
    {SubSeq(m, 1, Min(Len(m), top_k)) : m \in QueryRecords("tools", top_k * 2)}

\* retrieve_docs(query, top_k)
RetrieveDocs(top_k) == QueryRecords("docs", top_k)

\* node_writer has not built a context
NoContext == [built |-> FALSE, tools |-> <<>>, docs |-> <<>>, parts |-> <<>>]

\* graph_core.py lines 69-72: the part of the context for a tool and for a doc
ToolPart(t) ==
    [head |-> <<"Existing tool", Get(t.metadata, "language", NoneVal).v>>,
     body |-> Get(t, "code", "")]

DocPart(d) ==
    [head |-> <<"Doc", Get(d, "title", None)>>, body |-> Get(d, "content", None)]

\* graph_core.py lines 65-72 of node_writer: the tools and the docs are
\* retrieved and the parts of the priming context are made of them
WriteContext ==
    /\ ~context.built
    /\ \E tools \in RetrieveTools(5), docs \in RetrieveDocs(5) :
         context' = [built |-> TRUE, tools |-> tools, docs |-> docs,
                     parts |-> [i \in DOMAIN tools |-> ToolPart(tools[i])]
                               \o [i \in DOMAIN docs |-> DocPart(docs[i])]]
    /\ UNCHANGED store

\* one call of the adapter, or of node_writer up to its context
MemoryStep ==
    \/ (AddTool /\ UNCHANGED context)
    \/ (AddError /\ UNCHANGED context)
    \/ (AddDoc /\ UNCHANGED context)
    \/ (AddPattern /\ UNCHANGED context)
    \/ (AddFix /\ UNCHANGED context)
    \/ WriteContext

---------------------------------------------------------------------------
(* runner/app.py, run_code lines 227-240: requirements.txt                     *)

\* the longest requirements and extra_requirements lists of the model
MaxEntries == 2

\* the entries a request can hold
Entries == {"numpy", " numpy", "pandas", " "}

\* an Optional[List[str]] field: given is FALSE where the field is None
Opt(given, list) == [given |-> given, list |-> list]

Absent == Opt(FALSE, <<>>)

OptLists ==
    {Absent} \cup {Opt(TRUE, l) : l \in UNION {[1..n -> Entries] : n \in 0..MaxEntries}}

\* the validators of requirements and extra_requirements (each_item=True): every
\* entry of a given list is stripped
Sanitized(field) == Opt(field.given, [i \in DOMAIN field.list |-> Strip(field.list[i])])

\* whether the SandboxConfig of the language has supports_requirements
SupportsRequirements(language) == language = "python"

\* list(filter(None, entries)): the entries that are not empty
FilterNone(entries) == SelectSeq(entries, LAMBDA e : e # "")

\* a loop that appends every entry
Dedupe_KeepAll(reqs, seen) == reqs

\* lines 234-239: the entries not seen before are appended, in order
RECURSIVE Dedupe(_, _)
Dedupe(reqs, seen) ==
    IF reqs = <<>> THEN <<>>
    ELSE IF Head(reqs) \in seen THEN Dedupe(Tail(reqs), seen)
    ELSE <<Head(reqs)>> \o Dedupe(Tail(reqs), seen \cup {Head(reqs)})

NoFile == [written |-> FALSE, lines |-> <<>>]

\* lines 227-240, for the request as the validators left it: whether
\* requirements.txt is written, and its lines
RequirementsTxt(language, requirements, extra_requirements) ==
    IF requirements.given /\ requirements.list # <<>> /\ SupportsRequirements(language)
      THEN LET reqs == FilterNone(requirements.list)
                         \o (IF extra_requirements.given /\ extra_requirements.list # <<>>
                               THEN FilterNone(extra_requirements.list) ELSE <<>>)
           IN  [written |-> TRUE, lines |-> Dedupe(reqs, {})]
      ELSE NoFile

\* no request is followed up to its requirements.txt
NoReqIn == [language |-> None, requirements |-> Absent, extra_requirements |-> Absent,
            done |-> FALSE]

\* run_code reaches line 227 with the validated request and passes line 240
WriteRequirements ==
    /\ reqIn.language # None
    /\ ~reqIn.done
    /\ reqFile' = RequirementsTxt(reqIn.language, Sanitized(reqIn.requirements),
                                  Sanitized(reqIn.extra_requirements))
    /\ reqIn' = [reqIn EXCEPT !.done = TRUE]
    /\ UNCHANGED <<ovars, rvars, tvars, gvars, mvars, svars, ivars>>

---------------------------------------------------------------------------
(* The texts of the models and what is made of them before the Runner gets     *)
(* them: _strip_code_fences of api/agents/code_writer.py and of                *)
(* api/agents/code_fixer.py, then lines 85-92 of execute.  A text is a list of  *)
(* pieces: a fence, a line break, a blank, the byte order mark, a language      *)
(* word, or other text that holds none of these.                                *)

\* the longest text of the model, in pieces
MaxPieces == 4

\* three backquotes
FENCE == "<fence>"

NL == "\n"

BLANK == " "

BOM == "<U+FEFF>"

\* words whose lower case is one of python, c, cpp, c++, javascript, java
LangWords == {"python", "Java"}

Pieces == {FENCE, NL, BLANK, BOM, "x = 1"} \cup LangWords

\* len() of a piece
PieceLen(p) ==
    CASE p = FENCE    -> 3
      [] p = "python" -> 6
      [] p = "Java"   -> 4
      [] p = "x = 1"  -> 5
      [] OTHER        -> 1

RECURSIVE TextLen(_)
TextLen(s) == IF s = <<>> THEN 0 ELSE PieceLen(Head(s)) + TextLen(Tail(s))

\* str.isspace() of a piece; the byte order mark is not white space
IsSpace(p) == p \in {NL, BLANK}

\* str.lstrip(), str.rstrip() and str.strip()
RECURSIVE LStrip(_)
LStrip(s) == IF s # <<>> /\ IsSpace(Head(s)) THEN LStrip(Tail(s)) ELSE s

RECURSIVE RStrip(_)
RStrip(s) ==
    IF s # <<>> /\ IsSpace(s[Len(s)]) THEN RStrip(SubSeq(s, 1, Len(s) - 1)) ELSE s

StripText(s) == RStrip(LStrip(s))

\* str.lstrip("\ufeff")
RECURSIVE LStripBom(_)
LStripBom(s) == IF s # <<>> /\ Head(s) = BOM THEN LStripBom(Tail(s)) ELSE s

\* s.split(sep): the parts between the occurrences of the piece sep, empty ones too
RECURSIVE SplitAt(_, _, _)
SplitAt(s, sep, part) ==
    IF s = <<>> THEN <<part>>
    ELSE IF Head(s) = sep THEN <<part>> \o SplitAt(Tail(s), sep, <<>>)
    ELSE SplitAt(Tail(s), sep, Append(part, Head(s)))

\* str.splitlines(): as split at the line breaks, without the empty last line
\* that a final line break (or the empty text) would give
SplitLines(s) ==
    LET parts == SplitAt(s, NL, <<>>)
    IN  IF parts[Len(parts)] = <<>> THEN SubSeq(parts, 1, Len(parts) - 1) ELSE parts

\* "\n".join(lines)
RECURSIVE JoinLines(_)
JoinLines(lines) ==
    IF lines = <<>> THEN <<>>
    ELSE IF Len(lines) = 1 THEN lines[1]
    ELSE lines[1] \o <<NL>> \o JoinLines(Tail(lines))

\* line.strip().lower() in {"python", "c", "cpp", "c++", "javascript", "java"}
IsLangLine(line) == Len(StripText(line)) = 1 /\ StripText(line)[1] \in LangWords

\* line.strip().startswith(<fence>)
IsFenceLine(line) == StripText(line) # <<>> /\ StripText(line)[1] = FENCE

\* while lines and <the first line is dropped>: lines = lines[1:]
RECURSIVE DropLangLines(_)
DropLangLines(lines) ==
    IF lines # <<>> /\ IsLangLine(lines[1]) THEN DropLangLines(Tail(lines)) ELSE lines

\* code_executor.py line 90: language lines and fence lines are dropped from the top
RECURSIVE DropLeading(_)
DropLeading(lines) ==
    IF lines # <<>> /\ (IsLangLine(lines[1]) \/ IsFenceLine(lines[1]))
      THEN DropLeading(Tail(lines)) ELSE lines

\* code_executor.py lines 86-92
Sanitize(code) ==
    LET stripped == StripText(LStripBom(code))
        lines == SplitLines(stripped)
    IN  StripText(JoinLines(DropLeading(lines)))

\* code_writer.py lines 45-55: the first block between fences, from part i on,
\* that is not empty once its language line is dropped; <<>> if there is none
RECURSIVE FirstBlock(_, _)
FirstBlock(parts, i) ==
    IF i > Len(parts) THEN <<>>
    ELSE LET block_lines == SplitLines(parts[i])
             kept == IF block_lines # <<>> /\ IsLangLine(block_lines[1])
                       THEN Tail(block_lines) ELSE block_lines
             code == StripText(JoinLines(kept))
         IN  IF code # <<>> THEN code ELSE FirstBlock(parts, i + 2)

\* code_writer.py, _strip_code_fences
WriterStripCodeFences(text) ==
    LET raw == StripText(text)
        block == FirstBlock(SplitAt(raw, FENCE, <<>>), 2)
        lines == SelectSeq(DropLangLines(SplitLines(raw)), LAMBDA ln : ~IsFenceLine(ln))
    IN  IF FENCE \in Range(raw) /\ block # <<>> THEN block
        ELSE StripText(JoinLines(lines))

\* max(parts, key=len): the first of the longest parts
RECURSIVE Longest(_, _)
Longest(parts, best) ==
    IF parts = <<>> THEN best
    ELSE Longest(Tail(parts),
                 IF TextLen(Head(parts)) > TextLen(best) THEN Head(parts) ELSE best)

\* code_fixer.py, _strip_code_fences
FixerStripCodeFences(text) ==
    LET s0 == StripText(text)
        s1 == IF Len(s0) >= 2 /\ s0[1] = "python" /\ s0[2] = NL
                THEN LStrip(SubSeq(s0, 3, Len(s0))) ELSE s0
        parts == SelectSeq(SplitAt(s1, FENCE, <<>>), LAMBDA p : StripText(p) # <<>>)
    IN  IF s1 # <<>> /\ s1[1] = FENCE
          THEN StripText(IF parts = <<>> THEN s1 ELSE Longest(Tail(parts), Head(parts)))
          ELSE s1

\* the text an agent returns for the text of the model: generate_code and
\* fix_code raise where it is blank
AgentCode(agent, raw) ==
    IF agent = "code_writer" THEN WriterStripCodeFences(raw) ELSE FixerStripCodeFences(raw)

Texts == UNION {[1..n -> Pieces] : n \in 1..MaxPieces}

NoCodeIn == [agent |-> None, raw |-> <<>>]

\* the code of the agent reaches execute, which sanitizes it and sends it
SanitizeAndSend ==
    /\ codeIn.agent # None
    /\ codeOut = <<>>
    /\ StripText(AgentCode(codeIn.agent, codeIn.raw)) # <<>>
    /\ codeOut' = <<Sanitize(AgentCode(codeIn.agent, codeIn.raw)),
                    Sanitize(Sanitize(AgentCode(codeIn.agent, codeIn.raw)))>>
    /\ UNCHANGED codeIn
    /\ UNCHANGED <<ovars, rvars, tvars, gvars, mvars, qvars, ivars>>

---------------------------------------------------------------------------
(* api/memory/rag_manager.py, lines 10-23: the lazily made index client and    *)
(* embedding model.  run_task_api is a plain def, which the server runs in a    *)
(* thread of its pool, so tasks call the adapter from several threads.  The     *)
(* start-up hook of api/main.py calls the two init functions and drops what     *)
(* they return: the globals of rag_manager are None when the first task comes.  *)

NumThreads == 2

Threads == 1..NumThreads

Resources == {"index", "embedder"}

\* None for each resource, written 0; the instances are numbered from 1
NoInstances == [r \in Resources |-> 0]

\* where a thread is: at the test, at the init call or at the return of the
\* accessor of a resource
Pos(at, res) == [at |-> at, res |-> res]

Idle == Pos("idle", "none")

Done == Pos("done", "none")

\* _upsert_record and _query_records call _get_index() and, through _embed,
\* _get_embedder()
CallAdapter(t) ==
    /\ tpc[t] = Idle
    /\ tpc' = [tpc EXCEPT ![t] = Pos("check", "index")]
    /\ UNCHANGED <<shared, made, got>>

\* lines 15 and 21: if <global> is None
TestGlobal(t, r) ==
    /\ tpc[t] = Pos("check", r)
    /\ tpc' = [tpc EXCEPT ![t] = Pos(IF shared[r] = 0 THEN "init" ELSE "return", r)]
    /\ UNCHANGED <<shared, made, got>>

\* db_init.init_embedding_model returns SentenceTransformer(EMBED_MODEL_NAME):
\* a new model at every call
InitEmbeddingModel == made["embedder"] + 1

\* init_pinecone_client builds the vector-index client; like the model, a
\* new client at every call
InitPineconeClient == made["index"] + 1

\* lines 16 and 22: <global> = init_...()
InitGlobal(t, r) ==
    /\ tpc[t] = Pos("init", r)
    /\ made' = [made EXCEPT ![r] = @ + 1]
    /\ shared' = [shared EXCEPT ![r] = IF r = "index" THEN InitPineconeClient
                                                     ELSE InitEmbeddingModel]
    /\ tpc' = [tpc EXCEPT ![t] = Pos("return", r)]
    /\ UNCHANGED got

\* lines 17 and 23: return <global>; after the index comes the embedder
ReturnGlobal(t, r) ==
    /\ tpc[t] = Pos("return", r)
    /\ got' = [got EXCEPT ![t][r] = shared[r]]
    /\ tpc' = [tpc EXCEPT ![t] = IF r = "index" THEN Pos("check", "embedder") ELSE Done]
    /\ UNCHANGED <<shared, made>>

LazyStep(t) ==
    \/ CallAdapter(t)
    \/ \E r \in Resources : TestGlobal(t, r) \/ InitGlobal(t, r) \/ ReturnGlobal(t, r)

---------------------------------------------------------------------------
(* Specifications *)

\* nothing came through the API
TransportQuiet == endpoint = None /\ http = NoHttp

\* no signature is computed
SignatureQuiet == sigIn = <<>> /\ sigOut = <<>>

\* the index is empty and no context was built
MemoryQuiet == store = <<>> /\ context = NoContext

\* no requirements.txt is followed
RequirementsQuiet == reqIn = NoReqIn /\ reqFile = NoFile

\* no text is sanitized
SanitizeQuiet == codeIn = NoCodeIn /\ codeOut = <<>>

\* no thread asks for the shared resources
LazyQuiet ==
    /\ tpc = [t \in Threads |-> Idle]
    /\ shared = NoInstances
    /\ made = NoInstances
    /\ got = [t \in Threads |-> NoInstances]

LaterQuiet == RequirementsQuiet /\ SanitizeQuiet /\ LazyQuiet

QuietInit == TransportQuiet /\ SignatureQuiet /\ MemoryQuiet /\ LaterQuiet

RunnerInit ==
    /\ rpc = [r \in Requests |-> "idle"]
    /\ permits = MAX_CONCURRENCY
    /\ containers = {}
    /\ tempdirs = {}
    /\ acquired = [r \in Requests |-> 0]
    /\ released = [r \in Requests |-> 0]
    /\ response = NoAnswer
    /\ escaped = {}

OrchInit(hints, files) ==
    /\ pc = "writer"
    /\ \E h \in hints, f \in files : state = initial_state("task", f, h)
    /\ sent = <<>>
    /\ simAsked = "skipped"
    /\ firstReply = Result(-1, None)
    /\ emitted = NoEmitted
    /\ upserts = <<>>
    /\ repair = "none"
    /\ nExec = 0
    /\ raisedBy = "none"

\* one run of the orchestrator, for every timeout hint
Init == OrchInit(Hints, InputFileSets) /\ RunnerInit /\ req = NoBody /\ QuietInit

Next == NodeWriter \/ NodeExecutor \/ NodeFixer \/ RunTaskReturn

Spec == Init /\ [][Next]_vars

\* the graph runs its nodes one after the other until END
FairSpec == Spec /\ WF_vars(Next)

\* NumRequests requests to the Runner
InitRunner ==
    /\ OrchInit({[given |-> FALSE, value |-> 0]}, {{}})
    /\ RunnerInit
    /\ req = NoBody
    /\ QuietInit

NextRunner == \E r \in Requests : RunnerStep(r)

SpecRunner == InitRunner /\ [][NextRunner]_vars

\* every request's thread keeps running
FairSpecRunner == SpecRunner /\ \A r \in Requests : WF_vars(RunnerStep(r))

\* one task through each entry point, with and without an input file
InitApi ==
    /\ pc = "api"
    /\ endpoint \in Endpoints
    /\ \E f \in {{}, {"data.csv"}} :
         state = initial_state("task", f, [given |-> FALSE, value |-> 0])
    /\ sent = <<>>
    /\ simAsked = "skipped"
    /\ firstReply = Result(-1, None)
    /\ emitted = NoEmitted
    /\ upserts = <<>>
    /\ repair = "none"
    /\ nExec = 0
    /\ raisedBy = "none"
    /\ http = NoHttp
    /\ SignatureQuiet
    /\ MemoryQuiet
    /\ LaterQuiet
    /\ RunnerInit
    /\ req = NoBody

NextApi == ApiReceive \/ Next \/ ApiAnswer

SpecApi == InitApi /\ [][NextApi]_vars

\* _error_signature applied to a text and a variant of it
InitSignature ==
    /\ OrchInit({[given |-> FALSE, value |-> 0]}, {{}})
    /\ RunnerInit
    /\ req = NoBody
    /\ TransportQuiet
    /\ MemoryQuiet
    /\ LaterQuiet
    /\ sigIn \in SamplePairs
    /\ sigOut = <<>>

NextSignature == ComputeSignatures

SpecSignature == InitSignature /\ [][NextSignature]_vars

\* the Memory Adapter alone: the index starts empty
InitMemory ==
    /\ OrchInit({[given |-> FALSE, value |-> 0]}, {{}})
    /\ RunnerInit
    /\ req = NoBody
    /\ QuietInit

NextMemory == MemoryStep /\ UNCHANGED <<ovars, rvars, tvars, gvars, yvars>>

SpecMemory == InitMemory /\ [][NextMemory]_vars

\* nothing but the part a specification below follows
RestQuiet ==
    /\ OrchInit({[given |-> FALSE, value |-> 0]}, {{}})
    /\ RunnerInit
    /\ req = NoBody
    /\ TransportQuiet
    /\ SignatureQuiet
    /\ MemoryQuiet

\* one request of the Runner, up to its requirements.txt
InitRequirements ==
    /\ RestQuiet
    /\ SanitizeQuiet
    /\ LazyQuiet
    /\ \E language \in {"python", "java"}, requirements \in OptLists,
          extra_requirements \in OptLists :
         reqIn = [language |-> language, requirements |-> requirements,
                  extra_requirements |-> extra_requirements, done |-> FALSE]
    /\ reqFile = NoFile

NextRequirements == WriteRequirements

SpecRequirements == InitRequirements /\ [][NextRequirements]_vars

\* one text of a model, from the agent to the request sent to the Runner
InitSanitize ==
    /\ RestQuiet
    /\ RequirementsQuiet
    /\ LazyQuiet
    /\ codeIn \in [agent : {"code_writer", "code_fixer"}, raw : Texts]
    /\ codeOut = <<>>

NextSanitize == SanitizeAndSend

SpecSanitize == InitSanitize /\ [][NextSanitize]_vars

\* the threads of the tasks that come first after the start of the service
InitLazy == RestQuiet /\ RequirementsQuiet /\ SanitizeQuiet /\ LazyQuiet

NextLazy ==
    /\ \E t \in Threads : LazyStep(t)
    /\ UNCHANGED <<ovars, rvars, tvars, gvars, mvars, qvars, svars>>

SpecLazy == InitLazy /\ [][NextLazy]_vars

\* one request to the Runner, for every body of Bodies
InitRequest ==
    /\ OrchInit({[given |-> FALSE, value |-> 0]}, {{}})
    /\ RunnerInit
    /\ req \in Bodies
    /\ QuietInit

NextRequest == RunnerReject(1) \/ RunnerStep(1)

SpecRequest == InitRequest /\ [][NextRequest]_vars

---------------------------------------------------------------------------
(* The orchestrator's claims *)

\* C1: in every reachable state of a run the attempts counter is at most
\* MAX_ATTEMPTS = 3.
C1_AttemptsAtMostMax == state.attempts <= MAX_ATTEMPTS

\* a run that ended with three executions and attempts = 3
C1_Witness == pc = "returned" /\ state.attempts = MAX_ATTEMPTS /\ nExec = 3

\* C2: every run eventually reaches DONE, also when the Repairer or a memory query
\* inside REPAIR fails on every invocation.  Stated for the runs whose WRITE
\* succeeded: from the first EXECUTE on, the graph reaches END.
C2_EventuallyDone == (pc = "executor") ~> (pc \in {"END", "returned"})

\* C3: after an execution that returned a nonempty inputs_required the run goes
\* straight to DONE without invoking the Repairer, and the emitted result carries
\* that inputs_required.
C3_InputsRequiredShortCircuit ==
    [][/\ (pc = "fixer" /\ state.result.inputs_required # <<>>)
            => (pc' = "END" /\ repair' = "none")
       /\ (pc = "END" /\ state.result.inputs_required # <<>>)
            => emitted'.inputs_required = state.result.inputs_required]_vars

\* C4: across every REPAIR transition (a step of node_fixer in which the Repairer
\* returned a repair), state.timeout does not decrease and ends in [60, 300].
C4_TimeoutMonotone ==
    [][(pc = "fixer" /\ repair' = "ok")
          => (state'.timeout >= state.timeout /\ state'.timeout \in 60..300)]_vars

\* C5: when the first Python execution of an EXECUTE step failed with
\* No module named 'X' and no similar prior error was found, exactly one retry was
\* sent and its requirements hold the mapped distribution of X exactly once.
C5_AutoInstallRetry ==
    (/\ pc = "fixer"
     /\ state.language = "python"
     /\ firstReply.returncode # 0
     /\ simAsked \in {"none", "raise"}
     /\ FindallMissing(firstReply.stderr) # <<>>)
       => /\ Len(sent) = 2
          /\ \A m \in Range(FindallMissing(firstReply.stderr)) :
               Count(sent[2].requirements, MapImportToPypi(m)) = 1

C12_FailureFeedsRepair ==
    [][(/\ pc = "fixer"
        /\ state.result.result.returncode # 0
        /\ state.result.inputs_required = <<>>)
          => /\ repair' # "none"
             /\ state'.attempts < MAX_ATTEMPTS => pc' = "executor"]_vars

C14_MemoryFailureSwallowed ==
    [][/\ raisedBy' \notin {"retrieve_tools", "retrieve_docs"}
       /\ (pc = "fixer" /\ Truthy(state.error)) => repair' # "none"]_vars

\* C15: when the Generator fails in WRITE the run goes to DONE without a request
\* to the Runner, and a result is emitted.
C15_GeneratorFailureReported ==
    [][(pc = "writer" /\ raisedBy' = "generate_code")
          => (pc' = "END" /\ sent' = <<>>)]_vars

\* C16: when the Repairer fails in REPAIR the run goes to DONE; no further EXECUTE
\* follows.
C16_RepairerFailureFatal ==
    [][(pc = "fixer" /\ repair' = "raised") => pc' = "END"]_vars

\* the stderr texts of a Runner infrastructure failure: the container runtime is
\* missing, docker cp failed, the Runner could not be reached
InfraErrors == {E_DOCKER, E_CP, E_RUNNER}

\* C17: after an execution that failed by a Runner infrastructure failure the
\* Orchestrator invokes no Repairer and executes nothing further, and the result
\* emitted carries the Runner's message as stderr.
C17_InfraFailureNotRetried ==
    [][/\ (pc = "fixer" /\ state.result.result.stderr \in InfraErrors)
            => (pc' = "END" /\ repair' = "none")
       /\ (pc = "END" /\ state.result.result.stderr \in InfraErrors)
            => emitted'.stderr = state.result.result.stderr]_vars

\* C21: both entry points answer a decode error (an unreadable upload) with
\* status 400, an exception that left the Orchestrator run with status 500, and a
\* run that returned with status 200 and {status: "success", result}.
C21_TransportAnswers ==
    [][/\ (pc = "api" /\ pc' = "answered") => http'.status = 400
       /\ (pc = "raised" /\ pc' = "answered") => http'.status = 500
       /\ (pc = "returned" /\ pc' = "answered")
            => http' = Http(200, "success", emitted)]_vars

\* C22: a stderr text and every variant of it obtained by replacing the file path
\* by another path and the integer by another integer have the same signature.
C22_SignatureStable == sigOut # <<>> => sigOut[1] = sigOut[2]

\* C23: in every state after an execution, error is set exactly when the exit
\* code of the last result is nonzero, whatever stderr the Runner returned.  Set is
\* what the code tests wherever it reads error: its truth value.
C23_ErrorIffNonzero ==
    state.result.set => (Truthy(state.error) <=> state.result.result.returncode # 0)

\* C24: in every state, from the initial one on and for every timeout hint,
\* state.timeout lies in [8, 300].
C24_TimeoutInRange == state.timeout \in 8..300

\* C25: memory records are append-only: a step never removes a record nor changes
\* one, and an upsert adds exactly one record, under an id no record had.
C25_AppendOnly ==
    [][/\ \A id \in DOMAIN store : id \in DOMAIN store' /\ store'[id] = store[id]
       /\ store' # store =>
            \E rid \in Ids \ DOMAIN store : DOMAIN store' = DOMAIN store \cup {rid}]_vars

\* the same tool was added twice and is held as two records
C25_Witness ==
    \E i, j \in DOMAIN store :
        /\ i # j
        /\ store[i].namespace = "tools"
        /\ store[i] = store[j]

\* the code add_tool was given for the record id, as add_tool cuts it
AddedCode(id) == store[id].values[2][3]

\* C26: the priming context holds, for every retrieved tool, the code that
\* add_tool was given for it (up to 8 KiB).
C26_ContextHoldsToolCode ==
    context.built =>
        \A i \in DOMAIN context.tools :
            context.parts[i].body = AddedCode(context.tools[i].id)

\* C27: at DONE the attempts counter equals the number of EXECUTE steps of the run.
C27_AttemptsCountExecutions ==
    pc \in {"END", "returned"} => state.attempts = nExec

\* C28: at DONE the result emitted is the result of executing the code the final
\* state holds: the last request sent to the Runner carried state.code.
C28_FinalCodeExecuted ==
    pc = "returned"
      => /\ sent # <<>>
         /\ sent[Len(sent)].code = state.code
         /\ emitted.returncode = state.result.result.returncode
         /\ emitted.stderr = state.result.result.stderr

\* C29: the result emitted carries inputs_required only if the last execution
\* reported a nonempty inputs_required, and never together with returncode 0.
C29_InputsRequiredOnlyFromLast ==
    pc = "returned"
      => /\ emitted.inputs_required # <<>> => state.result.inputs_required # <<>>
         /\ emitted.returncode = 0 => emitted.inputs_required = <<>>

\* the packages inferred for the code the state holds
InferredOf(s) == IF s.language = "python" THEN InferRequirements(s.code) ELSE {}

---------------------------------------------------------------------------
(* The Runner's claims *)

\* the requests between the acquisition of a permit and its release
InFlight == {r \in Requests : rpc[r] \in {"held", "created", "running"}}

AllReturned == \A r \in Requests : rpc[r] = "returned"

\* C6: once run_code has returned, on every way out, the request's container no
\* longer exists and its temp_dir has been deleted.
C6_CleanupOnReturn ==
    \A r \in Requests : rpc[r] = "returned" => (r \notin containers /\ r \notin tempdirs)

\* C7: the number of requests between permit acquisition and permit release never
\* exceeds MAX_CONCURRENCY, and a request acquires only while fewer are.
C7_AtMostMaxInFlight ==
    /\ Cardinality(InFlight) <= MAX_CONCURRENCY
    /\ \A r \in Requests :
         ENABLED RunnerAcquire(r) => Cardinality(InFlight) < MAX_CONCURRENCY

\* MAX_CONCURRENCY requests hold a permit and another waits at acquire()
C7_Witness ==
    /\ Cardinality(InFlight) = MAX_CONCURRENCY
    /\ \E r \in Requests : rpc[r] = "acquire" /\ ~ENABLED RunnerAcquire(r)

\* C8: a request that acquired a permit has released exactly one when it returns,
\* on every way out, and whenever no request is in progress all MAX_CONCURRENCY
\* permits are available.
C8_PermitReleased ==
    /\ \A r \in Requests : released[r] <= acquired[r]
    /\ \A r \in Requests : rpc[r] = "returned" => (acquired[r] = 1 /\ released[r] = 1)
    /\ (\A r \in Requests : rpc[r] \in {"idle", "returned"}) => permits = MAX_CONCURRENCY

\* every request has returned, some after a container exit (their containers are
\* still there) and some through an error return or an except clause
C8_Witness ==
    /\ AllReturned
    /\ permits = MAX_CONCURRENCY
    /\ \E r \in Requests : r \in containers
    /\ \E r \in Requests : r \notin containers

\* C9: with more requests than MAX_CONCURRENCY, every request eventually acquires a
\* permit and returns, each container run ending by exit or timeout.
C9_AllComplete == <>AllReturned

\* more requests than permits, all returned
C9_Witness ==
    /\ NumRequests > MAX_CONCURRENCY
    /\ AllReturned
    /\ \A r \in Requests : acquired[r] = 1

\* C10: at every instant at most MAX_CONCURRENCY containers created by the Runner
\* exist.
C10_AtMostMaxContainers == Cardinality(containers) <= MAX_CONCURRENCY

\* C18: when the container run outlives its timeout, the Runner removes the
\* container and answers exactly returncode 124, stdout "", stderr
\* "Execution timed out.", without artifacts_zip_b64 or artifacts_note.
C18_TimeoutAnswer ==
    [][\A r \in Requests :
         RunnerTimeout(r)
           => /\ r \notin containers'
              /\ Watched(r) => response' = Answer(200, 124, "", "Execution timed out.",
                                                  "absent")]_vars

\* the request followed got the timeout answer and its container is gone
C18_Witness ==
    /\ Watched(1)
    /\ rpc[1] = "returned"
    /\ response.returncode = 124
    /\ 1 \notin containers

\* a file name with a ".." segment, or an absolute one
UnsafeName(name) == name.abs \/ ".." \in Range(name.segs)

\* the answers by which the Runner refuses a request as invalid input
Refusals == {a \in [status : {400, 422}, returncode : {-1}, stdout : {None},
                    stderr : {None}, artifacts : {"absent"}] : TRUE}

\* C19: a request with an input file name that has a ".." segment or is absolute
\* is refused: no container is created for it, it is answered by a refusal, and no
\* file is written outside its workspace directory.
C19_TraversalRejected ==
    (Watched(1) /\ \E n \in req.files : UnsafeName(n))
      => /\ escaped = {}
         /\ rpc[1] \in {"idle", "rejected"}
         /\ rpc[1] = "rejected" => response \in Refusals

\* a language outside the profile table, a timeout outside [1, 300], or a
\* requirement that is empty once stripped
InvalidBody(b) ==
    \/ Lower(b.language) \notin LANG_HINTS
    \/ b.timeout \notin 1..300
    \/ \E i \in DOMAIN b.requirements : Strip(b.requirements[i]) = ""

\* C20: a request whose language is not in the profile table, whose timeout is
\* outside [1, 300] or whose requirements hold an entry empty after trimming is
\* refused with an invalid-input answer before any container is created.
C20_InvalidInputRejected ==
    (Watched(1) /\ InvalidBody(req))
      => /\ rpc[1] \in {"idle", "rejected"}
         /\ 1 \notin containers
         /\ rpc[1] = "rejected" => response \in Refusals

\* C31: every request sent to the Runner, the first one and the auto-install
\* retry, carries a timeout in the range [1, 300] the Runner accepts, and the
\* timeout of the retry is max(timeout, 60) + 60 for the timeout of the first.
C31_SentTimeoutAccepted ==
    /\ \A i \in DOMAIN sent : sent[i].timeout \in 1..300
    /\ Len(sent) = 2 => sent[2].timeout = Max(sent[1].timeout, 60) + 60

\* C32: where the first answer is a missing-module failure and the errors
\* namespace returns a similar error, one request was sent and the result is that
\* of the first answer; where the stderr of the first answer has no
\* "No module named", one request was sent.
C32_SimilarErrorSkipsRetry ==
    sent # <<>> =>
        /\ simAsked = "hit" =>
             /\ Len(sent) = 1
             /\ state.result.result = firstReply
             /\ state.result.inputs_required = <<>>
        /\ ~ContainsNoModuleNamed(firstReply.stderr) =>
             /\ Len(sent) = 1
             /\ state.result.result = firstReply

\* a missing-module failure of a Python program met a similar error in memory
C32_Witness ==
    /\ pc = "fixer"
    /\ simAsked = "hit"
    /\ state.language = "python"
    /\ firstReply = Result(1, E_MNF)
    /\ state.result.result = Result(1, E_MNF)
    /\ Len(sent) = 1

\* C33: execute returns, for every behaviour of the Runner, a result that holds
\* returncode, stdout and stderr, and run_task emits the flat shape with the
\* return code of that result, whether the Runner answered flat or nested.
C33_ResultShape ==
    /\ state.result.set =>
         /\ state.result.result.stderr # None
         /\ state.result.result.returncode \in Int
    /\ pc = "returned" =>
         /\ emitted.stderr # None
         /\ emitted.language # None
         /\ emitted.returncode = state.result.result.returncode

\* the entries of all that occur for the first time, from index k on
RECURSIVE KeepFirst(_, _)
KeepFirst(all, k) ==
    IF k > Len(all) THEN <<>>
    ELSE (IF \A m \in 1..(k - 1) : all[m] # all[k] THEN <<all[k]>> ELSE <<>>)
           \o KeepFirst(all, k + 1)

\* the text of a file whose lines are the entries
FileText(entries) ==
    JoinLines([i \in DOMAIN entries |-> IF entries[i] = "" THEN <<>> ELSE <<entries[i]>>])

\* whether line 227 finds requirements of the request and a profile that supports them
WantsRequirements(r) ==
    /\ SupportsRequirements(r.language)
    /\ r.requirements.given
    /\ r.requirements.list # <<>>

FrameOfRepair == DOMAIN state \ {"code", "attempts", "timeout"}

\* C35: a REPAIR step leaves every field of the state but code, attempts and
\* timeout as it was, task, language and input_files among them, and no step
\* after the WRITE changes language.
C35_RepairFrame ==
    [][/\ pc = "fixer" => \A f \in FrameOfRepair : state'[f] = state[f]
       /\ pc # "writer" => state'.language = state.language]_vars

\* a Java program was repaired: the run is back at EXECUTE with the second
\* attempt and the raised timeout
C35_Witness ==
    /\ pc = "executor"
    /\ repair = "ok"
    /\ state.language = "java"
    /\ state.attempts = 2
    /\ state.timeout = 90
    /\ state.task = "task"

\* the first and the last line of a text
FirstLine(text) == SplitLines(text)[1]

LastLine(text) == SplitLines(text)[Len(SplitLines(text))]

\* C36: the code execute sends does not begin with a line that is a language
\* word nor with a fence, does not end with a fence, and sanitizing it again
\* leaves it as it is.
C36_SanitizedCode ==
    (codeOut # <<>> /\ codeOut[1] # <<>>) =>
        /\ ~IsLangLine(FirstLine(codeOut[1]))
        /\ codeOut[1][1] # FENCE
        /\ codeOut[1][Len(codeOut[1])] # FENCE
        /\ ~IsFenceLine(LastLine(codeOut[1]))
        /\ codeOut[2] = codeOut[1]

\* C37: the index client and the embedding model are each created at most once,
\* and the threads that were given one were given the same one.
C37_InitializedOnce ==
    \A r \in Resources :
        /\ made[r] <= 1
        /\ \A t, u \in Threads : (got[t][r] # 0 /\ got[u][r] # 0) => got[t][r] = got[u][r]

=============================================================================
